---------------------------- MODULE Spec2Model ----------------------------
(***************************************************************************)
(* A model of wowdbdefs-rs: the raw DbdFile, the version matcher, the      *)
(* Version order and the raw -> specific resolution (src/types.rs).        *)
(*                                                                         *)
(* Encodings.  Option<T>: None is <<>>, Some(x) is <<x>>.                  *)
(* Result<T, E>: Ok(v) is [ok |-> TRUE, val |-> v], Err(e) is              *)
(* [ok |-> FALSE, err |-> e].  A reference into a Vec (Option<&T>          *)
(* returned by Iterator::find) is the 1-based position of the element.     *)
(* HashMap<String, Column> is a function from the set of keys.             *)
(***************************************************************************)
EXTENDS Integers, Sequences, FiniteSets, TLC

VARIABLES file, calls, specific, ret

vars == <<file, calls, specific, ret>>

(***************************************************************************)
(* Bounds of the model.                                                    *)
(***************************************************************************)
MaxComp == 1
MaxCalls == 3
MaxDefinitions == 2
MaxEntries == 2
MaxArray == 1

None == <<>>
Some(x) == <<x>>
Ok(v) == [ok |-> TRUE, val |-> v]
Err(e) == [ok |-> FALSE, err |-> e]

SeqsUpTo(S, n) == UNION {[1..k -> S] : k \in 0..n}

(***************************************************************************)
(* Version and VersionRange.                                               *)
(***************************************************************************)
Version_new(major, minor, patch, build) ==
    [major |-> major, minor |-> minor, patch |-> patch, build |-> build]

\* Ord for the unsigned components (u8 / u16).
int_cmp(a, b) == IF a < b THEN "Less" ELSE IF a > b THEN "Greater" ELSE "Equal"

\* A comparison that looks at the minor component before the major one.
Version_cmp_minor_first(self, other) ==
    LET mi == int_cmp(self.minor, other.minor)
        ma == int_cmp(self.major, other.major)
        pa == int_cmp(self.patch, other.patch)
    IN IF mi # "Equal" THEN mi
       ELSE IF ma # "Equal" THEN ma
       ELSE IF pa # "Equal" THEN pa
       ELSE int_cmp(self.build, other.build)

\* impl Ord for Version: the nested match.
Version_cmp(self, other) ==
    CASE int_cmp(self.major, other.major) = "Less" -> "Less"
      [] int_cmp(self.major, other.major) = "Greater" -> "Greater"
      [] int_cmp(self.major, other.major) = "Equal" ->
          CASE int_cmp(self.minor, other.minor) = "Less" -> "Less"
            [] int_cmp(self.minor, other.minor) = "Greater" -> "Greater"
            [] int_cmp(self.minor, other.minor) = "Equal" ->
                CASE int_cmp(self.patch, other.patch) = "Less" -> "Less"
                  [] int_cmp(self.patch, other.patch) = "Greater" -> "Greater"
                  [] int_cmp(self.patch, other.patch) = "Equal" ->
                      int_cmp(self.build, other.build)

\* impl PartialOrd for Version: Some(self.cmp(other)).
Version_partial_cmp(self, other) == Some(Version_cmp(self, other))

\* The operators <= and >= that PartialOrd provides from partial_cmp.
Version_le(a, b) == Version_partial_cmp(a, b) \in {Some("Less"), Some("Equal")}
Version_ge(a, b) == Version_partial_cmp(a, b) \in {Some("Greater"), Some("Equal")}

\* derive(PartialEq, Eq) for Version: field by field.
Version_eq(a, b) ==
    /\ a.major = b.major
    /\ a.minor = b.minor
    /\ a.patch = b.patch
    /\ a.build = b.build

VersionRange_new(from, to) == [from |-> from, to |-> to]

\* A range whose upper end is excluded.
within_range_exclusive(self, version) ==
    Version_le(self.from, version) /\ Version_ge(self.to, version)
        /\ ~Version_eq(self.to, version)

within_range(self, version) ==
    Version_le(self.from, version) /\ Version_ge(self.to, version)

(***************************************************************************)
(* Inputs of the Version specification.                                    *)
(***************************************************************************)
ExampleVersions ==
    { Version_new(3, 3, 5, 12340), Version_new(2, 4, 3, 8606),
      Version_new(1, 0, 0, 0), Version_new(2, 0, 0, 0), Version_new(2, 0, 0, 1) }

Versions ==
    ExampleVersions \cup
    { Version_new(a, b, c, d) :
        a \in 0..MaxComp, b \in 0..MaxComp, c \in 0..MaxComp, d \in 0..MaxComp }

(***************************************************************************)
(* Column, Entry, Definition, DbdFile.                                     *)
(***************************************************************************)
Type == {"Int", "Float", "LocString", "String"}

ForeignKey_new(database, column) == [database |-> database, column |-> column]

Column_new(name, ty, foreign_key, verified, comment) ==
    [name |-> name, ty |-> ty, foreign_key |-> foreign_key,
     verified |-> verified, comment |-> comment]

Layout_new(value) == [inner |-> value]

Entry_new(name, comment, integer_width, array_size, unsigned, primary_key, inline, relation) ==
    [name |-> name, comment |-> comment, integer_width |-> integer_width,
     unsigned |-> unsigned, array_size |-> array_size,
     primary_key |-> primary_key, inline |-> inline, relation |-> relation]

Definition_new(versions, version_ranges, layouts, entries) ==
    [versions |-> versions, version_ranges |-> version_ranges,
     entries |-> entries, layouts |-> layouts]

\* HashMap::new, HashMap::get and HashMap::insert (the new value replaces
\* the one stored under an equal key).
HashMap_new == [k \in {} |-> k]
HashMap_get(map, k) == IF k \in DOMAIN map THEN Some(map[k]) ELSE None
HashMap_insert(map, k, v) ==
    [x \in (DOMAIN map) \cup {k} |-> IF x = k THEN v ELSE map[x]]

\* An insertion that keeps the value already stored under the key.
HashMap_insert_if_absent(map, k, v) ==
    [x \in (DOMAIN map) \cup {k} |-> IF x \in DOMAIN map THEN map[x] ELSE v]

\* DbdFile::empty
empty(name) == [name |-> name, columns |-> HashMap_new, definitions |-> <<>>]

\* add_column that does not overwrite an earlier declaration of the name.
add_column_keep_first(self, column) ==
    [self EXCEPT !.columns = HashMap_insert_if_absent(self.columns, column.name, column)]

\* DbdFile::add_column
add_column(self, column) ==
    [self EXCEPT !.columns = HashMap_insert(self.columns, column.name, column)]

\* DbdFile::add_database
add_database(self, definition) ==
    [self EXCEPT !.definitions = Append(self.definitions, definition)]

\* DbdFile::find_column
find_column(self, entry) == HashMap_get(self.columns, entry.name)

(***************************************************************************)
(* The version matcher.                                                    *)
(***************************************************************************)
\* compare_versions that looks at the exact versions only.
compare_versions_exact_only(version, version_ranges, versions) ==
    \E b \in versions : Version_eq(b, version)

\* compare_versions: the loop over the ranges, then the loop over the set.
compare_versions(version, version_ranges, versions) ==
    \/ \E i \in 1..Len(version_ranges) : within_range(version_ranges[i], version)
    \/ \E b \in versions : Version_eq(b, version)

\* Iterator::find over the definitions: the position of the first one, from
\* position i on, that compare_versions accepts.
RECURSIVE find_from(_, _, _)
find_from(definitions, version, i) ==
    IF i > Len(definitions) THEN None
    ELSE IF compare_versions(version, definitions[i].version_ranges,
                             definitions[i].versions)
         THEN Some(i)
         ELSE find_from(definitions, version, i + 1)

\* A search from the last definition backwards.
RECURSIVE rfind_from(_, _, _)
rfind_from(definitions, version, i) ==
    IF i < 1 THEN None
    ELSE IF compare_versions(version, definitions[i].version_ranges,
                             definitions[i].versions)
         THEN Some(i)
         ELSE rfind_from(definitions, version, i - 1)

specific_version_last(self, version) ==
    rfind_from(self.definitions, version, Len(self.definitions))

\* DbdFile::specific_version and SpecificDbdFile::specific_version: the same
\* code on either file.
specific_version(self, version) == find_from(self.definitions, version, 1)

(***************************************************************************)
(* Resolution: Definition::to_specific and DbdFile::into_specific.         *)
(***************************************************************************)
\* SpecificType: a tagged union.
Scalar(tag) == [tag |-> tag]
SpecificType_ForeignKey(ty, key) == [tag |-> "ForeignKey", ty |-> ty, key |-> key]
SpecificType_Array(ty, width) == [tag |-> "Array", ty |-> ty, width |-> width]

IntegerTags ==
    {"Int8", "Int16", "Int32", "Int64", "UInt8", "UInt16", "UInt32", "UInt64"}

\* SpecificConversionError
InvalidIntegerWidth(w) == [kind |-> "InvalidIntegerWidth", width |-> w]
NoIntegerWidth == [kind |-> "NoIntegerWidth"]
ColumnNotFound(name) == [kind |-> "ColumnNotFound", name |-> name]
LocStringAsForeignKey == [kind |-> "LocStringAsForeignKey"]
StringAsForeignKey == [kind |-> "StringAsForeignKey"]
FloatAsForeignKey == [kind |-> "FloatAsForeignKey"]
\* unreachable!(): a panic, not a SpecificConversionError.
Unreachable == [kind |-> "panic"]

\* u8 -> usize (v.into()): a widening, every u8 is kept as it is.
u8_into_usize(v) == v

\* The integer match that ignores the unsigned flag.
integer_type_signed_only(v, unsigned) ==
    CASE v = 8 -> Ok(Scalar("Int8"))
      [] v = 16 -> Ok(Scalar("Int16"))
      [] v = 32 -> Ok(Scalar("Int32"))
      [] v = 64 -> Ok(Scalar("Int64"))
      [] OTHER -> Err(InvalidIntegerWidth(u8_into_usize(v)))

\* match entry.unsigned { true => match v {...}, false => match v {...} }
integer_type(v, unsigned) ==
    IF unsigned
    THEN CASE v = 8 -> Ok(Scalar("UInt8"))
           [] v = 16 -> Ok(Scalar("UInt16"))
           [] v = 32 -> Ok(Scalar("UInt32"))
           [] v = 64 -> Ok(Scalar("UInt64"))
           [] OTHER -> Err(InvalidIntegerWidth(u8_into_usize(v)))
    ELSE CASE v = 8 -> Ok(Scalar("Int8"))
           [] v = 16 -> Ok(Scalar("Int16"))
           [] v = 32 -> Ok(Scalar("Int32"))
           [] v = 64 -> Ok(Scalar("Int64"))
           [] OTHER -> Err(InvalidIntegerWidth(u8_into_usize(v)))

\* let mut ty = match column.ty {...}
scalar_type(column, entry) ==
    CASE column.ty = "Int" ->
            IF entry.integer_width = None
            THEN Err(NoIntegerWidth)
            ELSE integer_type(entry.integer_width[1], entry.unsigned)
      [] column.ty = "Float" -> Ok(Scalar("Float"))
      [] column.ty = "LocString" -> Ok(Scalar("LocString"))
      [] column.ty = "String" -> Ok(Scalar("String"))

\* A foreign key wrapped around every type.
wrap_foreign_key_any(ty, column) ==
    IF column.foreign_key = None
    THEN Ok(ty)
    ELSE Ok(SpecificType_ForeignKey(ty, column.foreign_key[1]))

\* if let Some(foreign_key) = &column.foreign_key { match ty {...} }
wrap_foreign_key(ty, column) ==
    IF column.foreign_key = None
    THEN Ok(ty)
    ELSE CASE ty.tag \in IntegerTags \cup {"Array"} ->
                Ok(SpecificType_ForeignKey(ty, column.foreign_key[1]))
           [] ty.tag = "Float" -> Err(FloatAsForeignKey)
           [] ty.tag = "LocString" -> Err(LocStringAsForeignKey)
           [] ty.tag = "String" -> Err(StringAsForeignKey)
           [] ty.tag = "ForeignKey" -> Err(Unreachable)

\* if let Some(width) = entry.array_size { ty = Array { ty, width } }
wrap_array(ty, entry) ==
    IF entry.array_size = None
    THEN ty
    ELSE SpecificType_Array(ty, entry.array_size[1])

\* A SpecificEntry with the two comments in each other's place.
SpecificEntry_new_comments_swapped(entry, column, ty) ==
    [name |-> entry.name,
     ty |-> ty,
     comment |-> column.comment,
     column_comment |-> entry.comment,
     verified |-> column.verified,
     primary_key |-> entry.primary_key,
     inline |-> entry.inline,
     relation |-> entry.relation]

\* entries.push(SpecificEntry {...})
SpecificEntry_new(entry, column, ty) ==
    [name |-> entry.name,
     ty |-> ty,
     comment |-> entry.comment,
     column_comment |-> column.comment,
     verified |-> column.verified,
     primary_key |-> entry.primary_key,
     inline |-> entry.inline,
     relation |-> entry.relation]

\* The loop body with the width checked before the column is looked up.
resolve_entry_width_first(entry, columns) ==
    IF entry.integer_width = None
    THEN Err(NoIntegerWidth)
    ELSE IF HashMap_get(columns, entry.name) = None
         THEN Err(ColumnNotFound(entry.name))
         ELSE LET column == HashMap_get(columns, entry.name)[1]
                  scalar == scalar_type(column, entry)
                  keyed == IF scalar.ok THEN wrap_foreign_key(scalar.val, column)
                           ELSE scalar
              IN IF keyed.ok
                 THEN Ok(SpecificEntry_new(entry, column, wrap_array(keyed.val, entry)))
                 ELSE keyed

\* The loop body with the array wrapped before the foreign key.
resolve_entry_array_first(entry, columns) ==
    IF HashMap_get(columns, entry.name) = None
    THEN Err(ColumnNotFound(entry.name))
    ELSE LET column == HashMap_get(columns, entry.name)[1]
             scalar == scalar_type(column, entry)
             keyed == IF scalar.ok
                      THEN wrap_foreign_key(wrap_array(scalar.val, entry), column)
                      ELSE scalar
         IN IF keyed.ok
            THEN Ok(SpecificEntry_new(entry, column, keyed.val))
            ELSE keyed

\* One pass of the loop of to_specific: Err(e) where the code returns Err(e),
\* Ok(the entry pushed) otherwise.
resolve_entry(entry, columns) ==
    IF HashMap_get(columns, entry.name) = None
    THEN Err(ColumnNotFound(entry.name))
    ELSE LET column == HashMap_get(columns, entry.name)[1]
             scalar == scalar_type(column, entry)
             keyed == IF scalar.ok THEN wrap_foreign_key(scalar.val, column)
                      ELSE scalar
         IN IF keyed.ok
            THEN Ok(SpecificEntry_new(entry, column, wrap_array(keyed.val, entry)))
            ELSE keyed

\* for entry in &self.entries {...}: from entry i on, with the entries pushed
\* so far; the first Err returns.
RECURSIVE to_specific_loop(_, _, _, _)
to_specific_loop(self, columns, i, entries) ==
    IF i > Len(self.entries)
    THEN Ok([versions |-> self.versions,
             version_ranges |-> self.version_ranges,
             layouts |-> self.layouts,
             entries |-> entries])
    ELSE LET r == resolve_entry(self.entries[i], columns)
         IN IF r.ok
            THEN to_specific_loop(self, columns, i + 1, Append(entries, r.val))
            ELSE r

\* A loop that goes on after a failing entry and returns the last error.
RECURSIVE to_specific_last_error_loop(_, _, _, _, _)
to_specific_last_error_loop(self, columns, i, entries, failure) ==
    IF i > Len(self.entries)
    THEN IF failure = None
         THEN Ok([versions |-> self.versions,
                  version_ranges |-> self.version_ranges,
                  layouts |-> self.layouts,
                  entries |-> entries])
         ELSE failure[1]
    ELSE LET r == resolve_entry(self.entries[i], columns)
         IN IF r.ok
            THEN to_specific_last_error_loop(self, columns, i + 1,
                                             Append(entries, r.val), failure)
            ELSE to_specific_last_error_loop(self, columns, i + 1, entries, Some(r))

to_specific_last_error(self, columns) ==
    to_specific_last_error_loop(self, columns, 1, <<>>, None)

\* Definition::to_specific
to_specific(self, columns) == to_specific_loop(self, columns, 1, <<>>)

\* for def in self.definitions { definitions.push(def.to_specific(..)?) }
RECURSIVE into_specific_loop(_, _, _)
into_specific_loop(self, i, definitions) ==
    IF i > Len(self.definitions)
    THEN Ok([name |-> self.name, definitions |-> definitions])
    ELSE LET r == to_specific(self.definitions[i], self.columns)
         IN IF r.ok
            THEN into_specific_loop(self, i + 1, Append(definitions, r.val))
            ELSE r

\* DbdFile::into_specific
into_specific(self) == into_specific_loop(self, 1, <<>>)

(***************************************************************************)
(* The state.  file is the DbdFile under construction; calls is the        *)
(* sequence of add_column / add_database calls that built it; specific is  *)
(* the result of into_specific once the file has been moved into it (file  *)
(* then keeps the value that was moved); ret is the last call and what it  *)
(* returned.                                                               *)
(***************************************************************************)
FileName == "Map.dbd"
\* The name load_file gives a file whose path has no file name.
PLACEHOLDER_NAME == "PLACEHOLDER"
NoCall == [op |-> "none"]

AddColumnCall(c) == [op |-> "add_column", column |-> c]
AddDatabaseCall(d) == [op |-> "add_database", definition |-> d]

\* The file a sequence of add_column / add_database calls builds from
\* DbdFile::empty.
RECURSIVE BuildNamed(_, _)
BuildNamed(name, cs) ==
    IF cs = <<>> THEN empty(name)
    ELSE LET before == BuildNamed(name, SubSeq(cs, 1, Len(cs) - 1))
             c == cs[Len(cs)]
         IN IF c.op = "add_column"
            THEN add_column(before, c.column)
            ELSE add_database(before, c.definition)

Build(cs) == BuildNamed(FileName, cs)

Init ==
    /\ file = empty(FileName)
    /\ calls = <<>>
    /\ specific = None
    /\ ret = NoCall

(***************************************************************************)
(* Inputs.                                                                 *)
(***************************************************************************)
Names == {"ID", "Map"}
MapID == ForeignKey_new("Map", "ID")

PlainEntry(name, integer_width) ==
    Entry_new(name, None, integer_width, None, FALSE, FALSE, TRUE, FALSE)

\* Construction (Spec): per name a column and its variation in one attribute.
BuildColumns ==
    UNION { { Column_new(n, "Int", None, TRUE, None),
              Column_new(n, "Float", None, TRUE, None),
              Column_new(n, "Int", Some(MapID), TRUE, None),
              Column_new(n, "Int", None, FALSE, None),
              Column_new(n, "Int", None, TRUE, Some("note")) } : n \in Names }

BuildEntries ==
    { PlainEntry("ID", Some(32)), PlainEntry("Map", Some(32)),
      PlainEntry("Gone", Some(32)) }

BuildDefinitions ==
    { Definition_new({}, <<>>, {}, <<PlainEntry("ID", Some(32))>>),
      Definition_new({}, <<>>, {Layout_new(1)},
                     <<PlainEntry("Map", Some(32)), PlainEntry("ID", Some(32))>>) }

\* Lookup (SpecLookup): three queried versions and ranges around them.
Q1 == Version_new(0, 5, 3, 3400)
Q2 == Version_new(0, 6, 0, 3592)
Q3 == Version_new(1, 0, 0, 0)
LookupQueries == {Q1, Q2, Q3}

R1 == VersionRange_new(Version_new(0, 5, 3, 3368), Version_new(0, 5, 3, 3494))
R2 == VersionRange_new(Version_new(0, 5, 3, 3368), Q2)
R3 == VersionRange_new(Q2, Q3)
RInverted == VersionRange_new(Q3, Version_new(0, 5, 3, 3368))

LookupRangeLists ==
    {<<>>, <<R1>>, <<R2>>, <<R3>>, <<RInverted>>, <<RInverted, R1>>, <<R1, R3>>}

LookupExact == {{}, {Q1}, {Q2}, {Q2, Q3}}

LookupDefinitions ==
    { Definition_new(vs, rs, {Layout_new(1)}, <<PlainEntry("ID", Some(32))>>) :
        vs \in LookupExact, rs \in LookupRangeLists }

LookupCalls ==
    { cols \o [i \in 1..Len(ds) |-> AddDatabaseCall(ds[i])] :
        cols \in {<<>>, <<AddColumnCall(Column_new("ID", "Int", None, TRUE, None))>>},
        ds \in SeqsUpTo(LookupDefinitions, MaxDefinitions) }

\* Resolution (SpecResolve): every column and entry shape for a definition
\* of one entry, and a few shapes for files of several definitions.
Widths == {0, 8, 16, 24, 32, 64, 255}

EntryColumns ==
    { Column_new(n, ty, fk, TRUE, None) :
        n \in Names, ty \in Type, fk \in {None, Some(MapID)} }

EntryColumnCalls ==
    {<<>>} \cup { <<AddColumnCall(c)>> : c \in EntryColumns }
           \cup { <<AddColumnCall(c), AddColumnCall(d)>> :
                    c \in {x \in EntryColumns : x.name = "ID"},
                    d \in {x \in EntryColumns : x.name = "Map"} }

Entries ==
    { Entry_new(n, None, w, a, u, FALSE, TRUE, FALSE) :
        n \in Names,
        w \in {None} \cup {Some(x) : x \in Widths},
        a \in {None} \cup {Some(x) : x \in 0..MaxArray},
        u \in BOOLEAN }

EntryCalls ==
    { cols \o <<AddDatabaseCall(Definition_new({}, <<>>, {}, <<e>>))>> :
        cols \in EntryColumnCalls, e \in Entries }

SeveralColumnCalls ==
    { <<AddColumnCall(Column_new("ID", "Int", None, TRUE, None))>>,
      <<AddColumnCall(Column_new("ID", "Int", None, TRUE, None)),
        AddColumnCall(Column_new("Map", "Float", Some(MapID), FALSE, Some("note")))>> }

SeveralEntries ==
    { PlainEntry("ID", Some(32)), PlainEntry("ID", Some(24)), PlainEntry("Map", None) }

SeveralDefinitions ==
    { Definition_new({Q2}, <<R1>>, {Layout_new(1)}, es) :
        es \in SeqsUpTo(SeveralEntries, MaxEntries) }

SeveralCalls ==
    { cols \o [i \in 1..Len(ds) |-> AddDatabaseCall(ds[i])] :
        cols \in SeveralColumnCalls,
        ds \in SeqsUpTo(SeveralDefinitions, MaxDefinitions) }

\* Files of one definition whose entries all resolve, with the attributes
\* that resolution carries over varied: the comments, the verified flag and
\* the tags, and the definition's versions, ranges and layouts.
CarriedColumnCalls ==
    { <<AddColumnCall(Column_new("ID", "Int", None, v, c)),
        AddColumnCall(Column_new("Map", "Float", None, FALSE, Some("map note")))>> :
        v \in BOOLEAN, c \in {None, Some("column note")} }

\* A comment with primary_key, inline and relation; any two of the three
\* tags differ in one of these.
CarriedAttributes ==
    { <<None, FALSE, TRUE, FALSE>>, <<Some("entry note"), TRUE, FALSE, FALSE>>,
      <<None, FALSE, FALSE, TRUE>>, <<Some("entry note"), FALSE, TRUE, FALSE>> }

CarriedEntries ==
    { Entry_new(nw[1], t[1], nw[2], None, FALSE, t[2], t[3], t[4]) :
        nw \in {<<"ID", Some(32)>>, <<"Map", None>>},
        t \in CarriedAttributes }

CarriedDefinitions ==
    { Definition_new(h[1], h[2], h[3], es) :
        h \in { <<{}, <<>>, {}>>, <<{Q1, Q2}, <<R1, R3>>, {Layout_new(1), Layout_new(2)}>> },
        es \in SeqsUpTo(CarriedEntries, MaxEntries) }

CarriedCalls ==
    { cols \o <<AddDatabaseCall(d)>> :
        cols \in CarriedColumnCalls, d \in CarriedDefinitions }

ResolveCalls == EntryCalls \cup SeveralCalls \cup CarriedCalls

\* The names the files are built under.
ResolveNames(cs) ==
    IF cs \in CarriedCalls THEN {FileName, PLACEHOLDER_NAME} ELSE {FileName}

(***************************************************************************)
(* The operations.                                                         *)
(***************************************************************************)
AddColumn ==
    /\ specific = None
    /\ Len(calls) < MaxCalls
    /\ \E c \in BuildColumns :
        /\ file' = add_column(file, c)
        /\ calls' = Append(calls, AddColumnCall(c))
        /\ ret' = [op |-> "add_column", column |-> c]
    /\ UNCHANGED specific

AddDatabase ==
    /\ specific = None
    /\ Len(calls) < MaxCalls
    /\ Len(file.definitions) < MaxDefinitions
    /\ \E d \in BuildDefinitions :
        /\ file' = add_database(file, d)
        /\ calls' = Append(calls, AddDatabaseCall(d))
        /\ ret' = [op |-> "add_database", definition |-> d]
    /\ UNCHANGED specific

FindColumn ==
    /\ specific = None
    /\ \E e \in BuildEntries :
        ret' = [op |-> "find_column", entry |-> e, val |-> find_column(file, e)]
    /\ UNCHANGED <<file, calls, specific>>

SpecificVersion ==
    /\ specific = None
    /\ \E v \in LookupQueries :
        ret' = [op |-> "specific_version", version |-> v,
                val |-> specific_version(file, v)]
    /\ UNCHANGED <<file, calls, specific>>

\* definition.to_specific(&file.columns), as the crate's tests call it.
ToSpecific ==
    /\ specific = None
    /\ \E i \in 1..Len(file.definitions) :
        ret' = [op |-> "to_specific", index |-> i,
                val |-> to_specific(file.definitions[i], file.columns)]
    /\ UNCHANGED <<file, calls, specific>>

\* into_specific(self) takes the file by value: nothing is added afterwards.
IntoSpecific ==
    /\ specific = None
    /\ specific' = Some(into_specific(file))
    /\ ret' = [op |-> "into_specific", val |-> into_specific(file)]
    /\ UNCHANGED <<file, calls>>

SpecificVersionResolved ==
    /\ specific # None
    /\ specific[1].ok
    /\ \E v \in LookupQueries :
        ret' = [op |-> "specific_version_resolved", version |-> v,
                val |-> specific_version(specific[1].val, v)]
    /\ UNCHANGED <<file, calls, specific>>

\* Version::cmp and VersionRange::within_range are pure: a behaviour makes
\* one call, from the initial state.
Cmp ==
    /\ ret = NoCall
    /\ \E a \in Versions, b \in Versions :
        ret' = [op |-> "cmp", a |-> a, b |-> b, val |-> Version_cmp(a, b)]
    /\ UNCHANGED <<file, calls, specific>>

WithinRange ==
    /\ ret = NoCall
    /\ \E f \in Versions, t \in Versions, v \in Versions :
        ret' = [op |-> "within_range", range |-> VersionRange_new(f, t),
                version |-> v, val |-> within_range(VersionRange_new(f, t), v)]
    /\ UNCHANGED <<file, calls, specific>>

(***************************************************************************)
(* The specifications.                                                     *)
(***************************************************************************)
\* Construction of a file, then its use.
Next == AddColumn \/ AddDatabase \/ FindColumn \/ IntoSpecific

Spec == Init /\ [][Next]_vars

\* The version matcher on a constructed file, raw and resolved.
InitLookup ==
    /\ calls \in LookupCalls
    /\ file = Build(calls)
    /\ specific = None
    /\ ret = NoCall

NextLookup == SpecificVersion \/ IntoSpecific \/ SpecificVersionResolved

SpecLookup == InitLookup /\ [][NextLookup]_vars

\* Resolution of a constructed file.
InitResolve ==
    /\ calls \in ResolveCalls
    /\ file \in { BuildNamed(n, calls) : n \in ResolveNames(calls) }
    /\ specific = None
    /\ ret = NoCall

NextResolve == ToSpecific \/ IntoSpecific

SpecResolve == InitResolve /\ [][NextResolve]_vars

\* The Version order and the range test.
NextVersion == Cmp \/ WithinRange

SpecVersion == Init /\ [][NextVersion]_vars

(***************************************************************************)
(* C1, C2: the version matcher (SpecLookup).                               *)
(***************************************************************************)
Min(S) == CHOOSE x \in S : \A y \in S : x <= y
Max(S) == CHOOSE x \in S : \A y \in S : x >= y

Tuple(v) == <<v.major, v.minor, v.patch, v.build>>

\* a is before b in the lexicographic order of (major, minor, patch, build).
LexLess(a, b) ==
    \E i \in 1..4 :
        /\ Tuple(a)[i] < Tuple(b)[i]
        /\ \A j \in 1..(i - 1) : Tuple(a)[j] = Tuple(b)[j]

LexLeq(a, b) == LexLess(a, b) \/ Tuple(a) = Tuple(b)

IsLookup == ret.op \in {"specific_version", "specific_version_resolved"}

\* The file a lookup was made on: the raw file or the resolved one.
LookedUp == IF ret.op = "specific_version" THEN file ELSE specific[1].val

\* The positions of the definitions with a range covering v, and of those
\* with v in their exact versions.
RangeMatches(f, v) ==
    { i \in 1..Len(f.definitions) :
        \E k \in 1..Len(f.definitions[i].version_ranges) :
            LET r == f.definitions[i].version_ranges[k]
            IN LexLeq(r.from, v) /\ LexLeq(v, r.to) }

ExactMatches(f, v) ==
    { i \in 1..Len(f.definitions) : v \in f.definitions[i].versions }

\* C1 as stated: the first definition with a range covering v, and only if
\* no definition of the file has one, the first definition with v in its
\* exact versions.
RangeMatchTakesPrecedence ==
    IsLookup =>
        LET rm == RangeMatches(LookedUp, ret.version)
            em == ExactMatches(LookedUp, ret.version)
        IN ret.val = IF rm # {} THEN Some(Min(rm))
                     ELSE IF em # {} THEN Some(Min(em))
                     ELSE None

\* C1, amended: the result is the first definition with a range covering v
\* unless a definition before it has v in its exact versions, and then it is
\* the first definition with v in its exact versions: an earlier definition
\* that lists v only as an exact version is returned, not a later definition
\* that covers v by a range.
FirstMatchByRangeOrExact ==
    IsLookup =>
        LET rm == RangeMatches(LookedUp, ret.version)
            em == ExactMatches(LookedUp, ret.version)
        IN /\ (rm # {} /\ (em = {} \/ Min(rm) <= Min(em))) => ret.val = Some(Min(rm))
           /\ (em # {} /\ (rm = {} \/ Min(em) < Min(rm))) => ret.val = Some(Min(em))

\* The first definition lists the version only as an exact version, a later
\* one covers it by a range, and the first one was returned.
ExactBeforeRangeWitness ==
    /\ IsLookup
    /\ 1 \in ExactMatches(LookedUp, ret.version)
    /\ 1 \notin RangeMatches(LookedUp, ret.version)
    /\ 2 \in RangeMatches(LookedUp, ret.version)
    /\ ret.val = Some(1)

\* C2: specific_version returns None exactly when no definition matches v by
\* a range or by an exact version; otherwise it returns the matching
\* definition of the lowest position, however many match; the resolved file
\* gives the position the raw file gives.
LowestMatchOrNone ==
    IsLookup =>
        LET m == RangeMatches(LookedUp, ret.version)
                    \cup ExactMatches(LookedUp, ret.version)
        IN /\ (ret.val = None) <=> (m = {})
           /\ ret.val # None => ret.val = Some(Min(m))
           /\ ret.op = "specific_version_resolved" =>
                /\ Len(specific[1].val.definitions) = Len(file.definitions)
                /\ ret.val = IF RangeMatches(file, ret.version)
                                    \cup ExactMatches(file, ret.version) = {}
                             THEN None
                             ELSE Some(Min(RangeMatches(file, ret.version)
                                    \cup ExactMatches(file, ret.version)))

\* Two definitions match the version, the second one only by a range and the
\* first one only by an exact version or the other way round, and the lookup
\* on the resolved file returned the first.
SeveralMatchWitness ==
    /\ ret.op = "specific_version_resolved"
    /\ {1, 2} \subseteq RangeMatches(file, ret.version) \cup ExactMatches(file, ret.version)
    /\ file.definitions[1] # file.definitions[2]
    /\ ret.val = Some(1)

(***************************************************************************)
(* C3 - C7: resolution (SpecResolve).                                      *)
(***************************************************************************)
IsToSpecific == ret.op = "to_specific"

\* The definition the last to_specific call resolved, and its first entry.
Resolved == file.definitions[ret.index]
First == Resolved.entries[1]
FirstColumn == file.columns[First.name]
HasFirstColumn == Len(Resolved.entries) >= 1 /\ First.name \in DOMAIN file.columns

\* The type an entry resolves to, below an Array and a ForeignKey wrapper.
Unwrapped(ty) ==
    LET a == IF ty.tag = "Array" THEN ty.ty ELSE ty
    IN IF a.tag = "ForeignKey" THEN a.ty ELSE a

\* The scalar integer types, by width and unsigned flag.
IntegerTable ==
    { <<8, FALSE, "Int8">>, <<16, FALSE, "Int16">>, <<32, FALSE, "Int32">>,
      <<64, FALSE, "Int64">>, <<8, TRUE, "UInt8">>, <<16, TRUE, "UInt16">>,
      <<32, TRUE, "UInt32">>, <<64, TRUE, "UInt64">> }

IsIntegerOf(ty, entry) ==
    /\ entry.integer_width # None
    /\ <<entry.integer_width[1], entry.unsigned, ty.tag>> \in IntegerTable
    /\ DOMAIN ty = {"tag"}

\* C3: on an Int column, an entry without integer_width gives NoIntegerWidth,
\* a width of 8, 16, 32 or 64 gives Int8..Int64 or UInt8..UInt64 by the
\* unsigned flag, and any other width w gives InvalidIntegerWidth(w),
\* whatever the unsigned flag.
IntegerWidthDecidesType ==
    IsToSpecific =>
        /\ (HasFirstColumn /\ FirstColumn.ty = "Int") =>
            /\ First.integer_width = None => ret.val = Err(NoIntegerWidth)
            /\ (First.integer_width # None
                    /\ First.integer_width[1] \notin {8, 16, 32, 64})
                 => ret.val = Err([kind |-> "InvalidIntegerWidth",
                                   width |-> First.integer_width[1]])
            /\ (First.integer_width # None
                    /\ First.integer_width[1] \in {8, 16, 32, 64}
                    /\ Len(Resolved.entries) = 1)
                 => /\ ret.val.ok
                    /\ IsIntegerOf(Unwrapped(ret.val.val.entries[1].ty), First)
        /\ ret.val.ok =>
            \A i \in 1..Len(Resolved.entries) :
                file.columns[Resolved.entries[i].name].ty = "Int"
                    => IsIntegerOf(Unwrapped(ret.val.val.entries[i].ty),
                                   Resolved.entries[i])

\* An unsigned entry of width 64 on an Int column resolved to UInt64.
UnsignedIntegerWitness ==
    /\ IsToSpecific
    /\ HasFirstColumn
    /\ FirstColumn.ty = "Int"
    /\ First.integer_width = Some(64)
    /\ First.unsigned
    /\ ret.val.ok
    /\ Unwrapped(ret.val.val.entries[1].ty) = [tag |-> "UInt64"]

ForeignKeyErrors ==
    [Float |-> [kind |-> "FloatAsForeignKey"],
     LocString |-> [kind |-> "LocStringAsForeignKey"],
     String |-> [kind |-> "StringAsForeignKey"]]

\* C4: an entry whose column is Float, LocString or String and declares a
\* foreign key fails with the error of that kind, whatever its width,
\* unsigned flag or array length; without a foreign key a column of those
\* kinds gives none of the three errors.
ForeignKeyOnlyOnIntegers ==
    IsToSpecific =>
        /\ (HasFirstColumn /\ FirstColumn.ty \in DOMAIN ForeignKeyErrors) =>
            /\ FirstColumn.foreign_key # None
                 => ret.val = Err(ForeignKeyErrors[FirstColumn.ty])
            /\ (FirstColumn.foreign_key = None /\ Len(Resolved.entries) = 1)
                 => /\ ret.val.ok
                    /\ ret.val.val.entries[1].ty.tag \in {FirstColumn.ty, "Array"}
                    /\ Unwrapped(ret.val.val.entries[1].ty) = [tag |-> FirstColumn.ty]
        /\ \A t \in DOMAIN ForeignKeyErrors :
            (~ret.val.ok /\ ret.val.err = ForeignKeyErrors[t]) =>
                \E i \in 1..Len(Resolved.entries) :
                    /\ Resolved.entries[i].name \in DOMAIN file.columns
                    /\ file.columns[Resolved.entries[i].name].ty = t
                    /\ file.columns[Resolved.entries[i].name].foreign_key # None

\* An entry with an array length on a String column with a foreign key
\* failed with StringAsForeignKey.
StringForeignKeyWitness ==
    /\ IsToSpecific
    /\ HasFirstColumn
    /\ FirstColumn.ty = "String"
    /\ FirstColumn.foreign_key # None
    /\ First.array_size # None
    /\ ret.val = Err([kind |-> "StringAsForeignKey"])

\* A resolved type is a scalar, a ForeignKey around a scalar integer, or an
\* Array around one of these.
IsScalar(ty) ==
    /\ DOMAIN ty = {"tag"}
    /\ ty.tag \in IntegerTags \cup {"Float", "LocString", "String"}

IsKeyed(ty) ==
    /\ DOMAIN ty = {"tag", "ty", "key"}
    /\ ty.tag = "ForeignKey"
    /\ IsScalar(ty.ty)
    /\ ty.ty.tag \in IntegerTags

IsArrayed(ty) ==
    /\ DOMAIN ty = {"tag", "ty", "width"}
    /\ ty.tag = "Array"
    /\ IsScalar(ty.ty) \/ IsKeyed(ty.ty)

\* C5: an entry on an Int column with foreign key k and a valid width
\* resolves to ForeignKey{that integer type, k}, inside Array{.., n} when
\* the entry has array length n; so in every resolved entry a ForeignKey
\* wraps a scalar integer, an Array is the outermost wrapper only, and the
\* nesting is at most two deep.
ForeignKeyInsideArray ==
    IsToSpecific =>
        /\ (/\ HasFirstColumn
            /\ Len(Resolved.entries) = 1
            /\ FirstColumn.ty = "Int"
            /\ FirstColumn.foreign_key # None
            /\ First.integer_width # None
            /\ First.integer_width[1] \in {8, 16, 32, 64}) =>
            /\ ret.val.ok
            /\ LET ty == ret.val.val.entries[1].ty
                   keyed == IF First.array_size = None THEN ty ELSE ty.ty
               IN /\ First.array_size # None =>
                        /\ ty.tag = "Array"
                        /\ ty.width = First.array_size[1]
                  /\ keyed.tag = "ForeignKey"
                  /\ keyed.key = FirstColumn.foreign_key[1]
                  /\ IsIntegerOf(keyed.ty, First)
        /\ ret.val.ok =>
            \A i \in 1..Len(ret.val.val.entries) :
                LET ty == ret.val.val.entries[i].ty
                IN IsScalar(ty) \/ IsKeyed(ty) \/ IsArrayed(ty)

\* An entry with an array length on an Int column with a foreign key
\* resolved to an Array of a ForeignKey.
ArrayOfForeignKeyWitness ==
    /\ IsToSpecific
    /\ HasFirstColumn
    /\ FirstColumn.foreign_key # None
    /\ First.array_size = Some(1)
    /\ ret.val.ok
    /\ ret.val.val.entries[1].ty.tag = "Array"
    /\ ret.val.val.entries[1].ty.ty.tag = "ForeignKey"

\* The entries of a definition that do not resolve against the columns, and
\* the definitions of a file that do not.
FailingEntries(d, columns) ==
    { i \in 1..Len(d.entries) : ~resolve_entry(d.entries[i], columns).ok }

FailingDefinitions(f) ==
    { i \in 1..Len(f.definitions) :
        FailingEntries(f.definitions[i], f.columns) # {} }

\* C6: to_specific returns the error of the first failing entry and no
\* resolved entries, into_specific the error of the first failing
\* definition; into_specific succeeds iff to_specific succeeds for every
\* definition, and then yields one resolved definition per raw definition,
\* in the same order.
FailsOnFirstError ==
    /\ IsToSpecific =>
        LET failing == FailingEntries(Resolved, file.columns)
        IN /\ ret.val.ok <=> (failing = {})
           /\ failing # {} =>
                /\ ret.val = resolve_entry(Resolved.entries[Min(failing)], file.columns)
                /\ DOMAIN ret.val = {"ok", "err"}
           /\ failing = {} =>
                /\ Len(ret.val.val.entries) = Len(Resolved.entries)
                /\ \A i \in 1..Len(Resolved.entries) :
                      ret.val.val.entries[i].name = Resolved.entries[i].name
    /\ ret.op = "into_specific" =>
        LET failing == FailingDefinitions(file)
        IN /\ ret.val.ok <=> (failing = {})
           /\ ret.val.ok <=>
                \A i \in 1..Len(file.definitions) :
                    to_specific(file.definitions[i], file.columns).ok
           /\ failing # {} =>
                /\ ret.val = to_specific(file.definitions[Min(failing)], file.columns)
                /\ DOMAIN ret.val = {"ok", "err"}
           /\ failing = {} =>
                /\ Len(ret.val.val.definitions) = Len(file.definitions)
                /\ \A i \in 1..Len(file.definitions) :
                      Ok(ret.val.val.definitions[i])
                          = to_specific(file.definitions[i], file.columns)

\* into_specific failed on a file whose first definition resolves, whose
\* second definition has two failing entries with different errors, and the
\* error is the one of the first of them.
FirstErrorWitness ==
    /\ ret.op = "into_specific"
    /\ Len(file.definitions) >= 2
    /\ FailingDefinitions(file) = {2}
    /\ FailingEntries(file.definitions[2], file.columns) = {1, 2}
    /\ resolve_entry(file.definitions[2].entries[1], file.columns)
          # resolve_entry(file.definitions[2].entries[2], file.columns)
    /\ ret.val = resolve_entry(file.definitions[2].entries[1], file.columns)

\* C7: resolution succeeds only if every entry name of every definition is a
\* key of the column mapping; an entry whose name is not fails with
\* ColumnNotFound of that name, before its width and foreign key are looked
\* at.
MissingColumnReportedFirst ==
    /\ IsToSpecific =>
        /\ (Len(Resolved.entries) >= 1 /\ First.name \notin DOMAIN file.columns)
              => ret.val = Err([kind |-> "ColumnNotFound", name |-> First.name])
        /\ ret.val.ok =>
              \A i \in 1..Len(Resolved.entries) :
                  Resolved.entries[i].name \in DOMAIN file.columns
        /\ (~ret.val.ok /\ ret.val.err.kind = "ColumnNotFound") =>
              \E i \in 1..Len(Resolved.entries) :
                  /\ Resolved.entries[i].name \notin DOMAIN file.columns
                  /\ ret.val.err.name = Resolved.entries[i].name
    /\ (ret.op = "into_specific" /\ ret.val.ok) =>
          \A d \in 1..Len(file.definitions) :
              \A i \in 1..Len(file.definitions[d].entries) :
                  file.definitions[d].entries[i].name \in DOMAIN file.columns

\* An entry without a width whose column is not declared failed with
\* ColumnNotFound, while another column is declared.
MissingColumnWitness ==
    /\ IsToSpecific
    /\ Len(Resolved.entries) = 1
    /\ First.name \notin DOMAIN file.columns
    /\ DOMAIN file.columns # {}
    /\ First.integer_width = None
    /\ ret.val = Err([kind |-> "ColumnNotFound", name |-> First.name])

(***************************************************************************)
(* C8: add_column (Spec).                                                  *)
(***************************************************************************)
ColumnCalls == { i \in 1..Len(calls) : calls[i].op = "add_column" }
AddedNames == { calls[i].column.name : i \in ColumnCalls }

\* The column of the most recent add_column call with that name.
LastAdded(n) ==
    calls[Max({ i \in ColumnCalls : calls[i].column.name = n })].column

IsDatabaseCall(c) == c.op = "add_database"

\* The definitions of the add_database calls, in call order.
AddedDefinitions ==
    LET ds == SelectSeq(calls, IsDatabaseCall)
    IN [i \in 1..Len(ds) |-> ds[i].definition]

\* C8: after any sequence of add_column calls the mapping holds one column
\* per distinct name added, under a key equal to its name field, and it is
\* the column most recently added with that name; find_column and
\* into_specific see nothing of an earlier declaration of the name;
\* add_column leaves the definitions as add_database built them.
LastColumnWins ==
    /\ DOMAIN file.columns = AddedNames
    /\ \A n \in DOMAIN file.columns :
          /\ file.columns[n].name = n
          /\ file.columns[n] = LastAdded(n)
    /\ Len(file.definitions) = Len(AddedDefinitions)
    /\ \A i \in 1..Len(file.definitions) : file.definitions[i] = AddedDefinitions[i]
    /\ ret.op = "find_column" =>
          ret.val = IF ret.entry.name \in AddedNames
                    THEN Some(LastAdded(ret.entry.name))
                    ELSE None
    /\ ret.op = "into_specific" =>
          ret.val = into_specific([name |-> FileName,
                                   columns |-> [n \in AddedNames |-> LastAdded(n)],
                                   definitions |-> AddedDefinitions])

\* A name was added twice with different attributes, then a definition was
\* added, and find_column returned the later column.
RedeclaredColumnWitness ==
    /\ ret.op = "find_column"
    /\ Len(file.definitions) >= 1
    /\ \E i \in ColumnCalls, j \in ColumnCalls :
          /\ i < j
          /\ calls[i].column.name = ret.entry.name
          /\ calls[j].column.name = ret.entry.name
          /\ calls[i].column # calls[j].column
          /\ ret.val = Some(calls[j].column)
          /\ \A k \in ColumnCalls : calls[k].column.name = ret.entry.name => k <= j

(***************************************************************************)
(* C9, C10.                                                                *)
(***************************************************************************)
\* C9: Version::cmp is the lexicographic order of (major, minor, patch,
\* build): Less iff the first differing component is smaller in a, Equal iff
\* all four components are equal (as == says), Greater iff b is before a;
\* the order is total and antisymmetric, and (3,3,5,12340) > (2,4,3,8606).
VersionOrderLexicographic ==
    ret.op = "cmp" =>
        /\ ret.val \in {"Less", "Equal", "Greater"}
        /\ (ret.val = "Less") <=> LexLess(ret.a, ret.b)
        /\ (ret.val = "Greater") <=> LexLess(ret.b, ret.a)
        /\ (ret.val = "Equal") <=> (Tuple(ret.a) = Tuple(ret.b))
        /\ (ret.val = "Equal") <=> Version_eq(ret.a, ret.b)
        /\ (ret.a = Version_new(3, 3, 5, 12340) /\ ret.b = Version_new(2, 4, 3, 8606))
              => ret.val = "Greater"

\* Two versions whose major components order them one way and whose minor
\* components order them the other way have been compared.
VersionOrderWitness ==
    /\ ret.op = "cmp"
    /\ ret.a = Version_new(3, 3, 5, 12340)
    /\ ret.b = Version_new(2, 4, 3, 8606)
    /\ ret.val = "Greater"

\* C10: within_range(v) is true exactly when from <= v and v <= to in the
\* lexicographic order, both ends included; a range with from > to is
\* accepted and contains no version.
WithinRangeInclusive ==
    ret.op = "within_range" =>
        LET r == ret.range
            v == ret.version
            leq(a, b) == LexLeq(a, b)
        IN /\ ret.val <=> (leq(r.from, v) /\ leq(v, r.to))
           /\ Tuple(v) = Tuple(r.from) /\ leq(r.from, r.to) => ret.val
           /\ Tuple(v) = Tuple(r.to) /\ leq(r.from, r.to) => ret.val
           /\ LexLess(r.to, r.from) => ~ret.val
           /\ (r = VersionRange_new(Version_new(1, 0, 0, 0), Version_new(2, 0, 0, 0)))
                => /\ v = Version_new(1, 0, 0, 0) => ret.val
                   /\ v = Version_new(2, 0, 0, 0) => ret.val
                   /\ v = Version_new(2, 0, 0, 1) => ~ret.val

\* The upper end of the range (1,0,0,0)-(2,0,0,0) has been looked up and found.
WithinRangeWitness ==
    /\ ret.op = "within_range"
    /\ ret.range = VersionRange_new(Version_new(1, 0, 0, 0), Version_new(2, 0, 0, 0))
    /\ ret.version = Version_new(2, 0, 0, 0)
    /\ ret.val = TRUE

(***************************************************************************)
(* The location utility: line_and_column_to_str (src/lib.rs) and           *)
(* ParseError::start_str_at (src/error.rs).  A &str is the sequence of its *)
(* UTF-8 bytes; slicing it panics when the index is past the end or        *)
(* inside a character.  A call returns Returned(v) or panics.              *)
(***************************************************************************)
MaxChars == 4
MaxLine == 2
MaxColumn == 3

\* The byte of '\n'.
Newline == 10

Returned(v) == [panic |-> FALSE, val |-> v]
Panicked == [panic |-> TRUE]

\* str::is_char_boundary: the start, the end, or a byte that is not a UTF-8
\* continuation byte (0x80..0xBF).
is_char_boundary(s, index) ==
    \/ index = 0
    \/ index = Len(s)
    \/ index < Len(s) /\ s[index + 1] \notin 128..191

\* Some(&s[column..])
slice_from(s, column) ==
    IF column <= Len(s) /\ is_char_boundary(s, column)
    THEN Returned(Some(SubSeq(s, column + 1, Len(s))))
    ELSE Panicked

\* str::split_once: the text before and the text after the first delimiter.
split_once(s, delimiter) ==
    IF \A i \in 1..Len(s) : s[i] # delimiter
    THEN None
    ELSE LET p == CHOOSE i \in 1..Len(s) :
                      /\ s[i] = delimiter
                      /\ \A j \in 1..(i - 1) : s[j] # delimiter
         IN Some(<<SubSeq(s, 1, p - 1), SubSeq(s, p + 1, Len(s))>>)

\* The text up to the next delimiter, or all of it.
first_segment(s, delimiter) ==
    IF split_once(s, delimiter) = None THEN s ELSE split_once(s, delimiter)[1][1]

\* while let Some((_, b)) = contents.split_once('\n') {...} None, with i
\* lines skipped so far.
RECURSIVE line_and_column_to_str_loop(_, _, _, _)
line_and_column_to_str_loop(contents, line, column, i) ==
    IF split_once(contents, Newline) = None
    THEN Returned(None)
    ELSE LET b == split_once(contents, Newline)[1][2]
         IN IF line = i + 1
            THEN slice_from(b, column)
            ELSE line_and_column_to_str_loop(b, line, column, i + 1)

\* A loop that returns the rest of the line found, not the rest of the text.
RECURSIVE line_only_loop(_, _, _, _)
line_only_loop(contents, line, column, i) ==
    IF split_once(contents, Newline) = None
    THEN Returned(None)
    ELSE LET b == split_once(contents, Newline)[1][2]
         IN IF line = i + 1
            THEN slice_from(first_segment(b, Newline), column)
            ELSE line_only_loop(b, line, column, i + 1)

line_and_column_to_str_line_only(contents, line, column) ==
    IF line = 0
    THEN slice_from(contents, column)
    ELSE line_only_loop(contents, line, column, 0)

\* line_and_column_to_str
line_and_column_to_str(contents, line, column) ==
    IF line = 0
    THEN slice_from(contents, column)
    ELSE line_and_column_to_str_loop(contents, line, column, 0)

\* ParseError::new(column, line, reason)
ParseError_new(column, line, reason) ==
    [column |-> column, line |-> line, reason |-> reason]

RECURSIVE start_str_at_loop(_, _, _)
start_str_at_loop(self, contents, i) ==
    IF split_once(contents, Newline) = None
    THEN Returned(None)
    ELSE LET b == split_once(contents, Newline)[1][2]
         IN IF self.line = i + 1
            THEN slice_from(b, self.column)
            ELSE start_str_at_loop(self, b, i + 1)

\* ParseError::start_str_at
start_str_at(self, contents) ==
    IF self.line = 0
    THEN slice_from(contents, self.column)
    ELSE start_str_at_loop(self, contents, 0)

\* Inputs: texts of up to MaxChars characters out of 'a', '\n' and the
\* two-byte character U+00E9.
Chars == {<<97>>, <<Newline>>, <<195, 169>>}

RECURSIVE TextsUpTo(_)
TextsUpTo(n) ==
    IF n = 0 THEN {<<>>}
    ELSE TextsUpTo(n - 1) \cup {t \o c : t \in TextsUpTo(n - 1), c \in Chars}

Texts == TextsUpTo(MaxChars)

\* Both are pure: a behaviour makes one call, from the initial state.
LineAndColumnToStr ==
    /\ ret = NoCall
    /\ \E t \in Texts, l \in 0..MaxLine, c \in 0..MaxColumn :
        ret' = [op |-> "line_and_column_to_str", contents |-> t, line |-> l,
                column |-> c, val |-> line_and_column_to_str(t, l, c)]
    /\ UNCHANGED <<file, calls, specific>>

StartStrAt ==
    /\ ret = NoCall
    /\ \E t \in Texts, l \in 0..MaxLine, c \in 0..MaxColumn :
        ret' = [op |-> "start_str_at", contents |-> t, line |-> l, column |-> c,
                val |-> start_str_at(ParseError_new(c, l, "NoSpaceInColumn"), t)]
    /\ UNCHANGED <<file, calls, specific>>

NextLocate == LineAndColumnToStr \/ StartStrAt

SpecLocate == Init /\ [][NextLocate]_vars

(***************************************************************************)
(* C11.                                                                    *)
(***************************************************************************)
IsLocate == ret.op \in {"line_and_column_to_str", "start_str_at"}

NewlinesOf(t) == { i \in 1..Len(t) : t[i] = 10 }

\* The text has the line: line 0, or at least that many newline characters.
HasLine(t, line) == line = 0 \/ Cardinality(NewlinesOf(t)) >= line

\* The whole text after the n-th newline character (all of it for line 0).
Remainder(t, line) ==
    IF line = 0 THEN t
    ELSE LET p == CHOOSE q \in NewlinesOf(t) :
                      Cardinality({ x \in NewlinesOf(t) : x <= q }) = line
         IN SubSeq(t, p + 1, Len(t))

Suffix(t, column) == SubSeq(t, column + 1, Len(t))

\* The byte offsets at which a character of the text starts, and its end.
CharStarts(t) ==
    { i \in 0..Len(t) : i = Len(t) \/ t[i + 1] < 128 \/ t[i + 1] >= 192 }

\* The other function's result for the same text, line and column.
OtherLocate ==
    IF ret.op = "line_and_column_to_str"
    THEN start_str_at(ParseError_new(ret.column, ret.line, "NoSpaceInColumn"),
                      ret.contents)
    ELSE line_and_column_to_str(ret.contents, ret.line, ret.column)

\* C11 as stated: both functions give the suffix column bytes into the
\* remainder after the n-th newline (the full text for line 0), None when
\* the text has fewer than n newlines, and the result is defined whenever
\* column does not exceed the byte length of that remainder.
LocateDefinedWithinLength ==
    IsLocate =>
        /\ ret.val = OtherLocate
        /\ ~HasLine(ret.contents, ret.line) => ret.val = Returned(None)
        /\ (HasLine(ret.contents, ret.line)
                /\ ret.column <= Len(Remainder(ret.contents, ret.line)))
             => ret.val = Returned(Some(Suffix(Remainder(ret.contents, ret.line),
                                               ret.column)))

\* C11, amended: the same, with the result defined whenever column does not
\* exceed the byte length of the remainder and is the offset of a character
\* boundary in it; a column inside a multi-byte character panics, as a
\* column past the end does.
LocateDefinedOnCharBoundary ==
    IsLocate =>
        /\ ret.val = OtherLocate
        /\ ~HasLine(ret.contents, ret.line) => ret.val = Returned(None)
        /\ HasLine(ret.contents, ret.line) =>
            LET rest == Remainder(ret.contents, ret.line)
            IN IF ret.column \in CharStarts(rest)
               THEN ret.val = Returned(Some(Suffix(rest, ret.column)))
               ELSE ret.val = Panicked

\* Line 1 of a text with two newline characters was located at a column
\* past its first character, and the result runs on into the next line.
LocateWitness ==
    /\ IsLocate
    /\ ret.line = 1
    /\ ret.column = 1
    /\ Cardinality(NewlinesOf(ret.contents)) = 2
    /\ ~ret.val.panic
    /\ ret.val.val # None
    /\ NewlinesOf(ret.val.val[1]) # {}

(***************************************************************************)
(* C12: what resolution carries over (SpecResolve).                        *)
(***************************************************************************)
\* The resolved entry re has everything but its type from the raw entry e
\* and from the column of that name.
EntryCarried(re, e, columns) ==
    /\ DOMAIN re = {"name", "ty", "comment", "column_comment", "verified",
                    "primary_key", "inline", "relation"}
    /\ re.name = e.name
    /\ re.comment = e.comment
    /\ re.primary_key = e.primary_key
    /\ re.inline = e.inline
    /\ re.relation = e.relation
    /\ re.verified = columns[e.name].verified
    /\ re.column_comment = columns[e.name].comment

\* The resolved definition rd has the versions, ranges and layouts of the
\* raw definition d, and its entries one for one.
DefinitionCarried(rd, d, columns) ==
    /\ DOMAIN rd = {"versions", "version_ranges", "layouts", "entries"}
    /\ rd.versions = d.versions
    /\ rd.version_ranges = d.version_ranges
    /\ rd.layouts = d.layouts
    /\ Len(rd.entries) = Len(d.entries)
    /\ \A i \in 1..Len(d.entries) : EntryCarried(rd.entries[i], d.entries[i], columns)

\* C12: a successful resolution changes only the entries' types: a resolved
\* definition has the versions, version_ranges and layouts of the raw one
\* and as many entries in the same order; the i-th resolved entry has the
\* i-th raw entry's name, comment, primary_key, inline and relation, and the
\* verified flag and column_comment of the column of that name; the
\* resolved file has the raw file's name.
ResolutionCarriesAttributes ==
    /\ (IsToSpecific /\ ret.val.ok) =>
          DefinitionCarried(ret.val.val, Resolved, file.columns)
    /\ (ret.op = "into_specific" /\ ret.val.ok) =>
          /\ DOMAIN ret.val.val = {"name", "definitions"}
          /\ ret.val.val.name = file.name
          /\ Len(ret.val.val.definitions) = Len(file.definitions)
          /\ \A i \in 1..Len(file.definitions) :
                DefinitionCarried(ret.val.val.definitions[i], file.definitions[i],
                                  file.columns)

\* A file named PLACEHOLDER resolved; its definition has versions, ranges
\* and layouts and two entries on different columns; the first entry has a
\* comment that differs from its column's comment and is a primary key, the
\* second is not inline and its column is unverified.
CarriedAttributesWitness ==
    /\ ret.op = "into_specific"
    /\ ret.val.ok
    /\ file.name = PLACEHOLDER_NAME
    /\ Len(file.definitions) = 1
    /\ file.definitions[1].versions # {}
    /\ file.definitions[1].version_ranges # <<>>
    /\ Len(file.definitions[1].entries) = 2
    /\ LET e == file.definitions[1].entries
           re == ret.val.val.definitions[1].entries
       IN /\ e[1].name # e[2].name
          /\ e[1].comment = Some("entry note")
          /\ file.columns[e[1].name].comment = Some("column note")
          /\ re[1].comment = Some("entry note")
          /\ re[1].column_comment = Some("column note")
          /\ e[1].primary_key
          /\ ~e[2].inline
          /\ ~re[2].verified
          /\ re[1].verified

=============================================================================
